---- MODULE Spec2Model ----
(***************************************************************************)
(* Model of robo_replay_model.py (class RoboReplay): the place-cell        *)
(* network, its reward-triggered replay controller in main(), and the ROS  *)
(* callbacks that feed it.                                                 *)
(*                                                                         *)
(* Numbers.  The network quantities (currents, rates, gains, STP values,   *)
(* inhibition, place fields, poses) are Python floats.  They are modelled  *)
(* as fixed-point numbers: the integer v stands for the real v / Q.  A     *)
(* product or quotient is rounded to the nearest multiple of 1/Q and, like *)
(* a float product or quotient in the normal range, is zero only when the  *)
(* exact result is zero.                                                   *)
(* The replay clock t_replay decides its comparisons at the rounding of    *)
(* the repeated sum of delta_t, so it is modelled bit-exactly as an IEEE   *)
(* binary64 value (see FAdd).                                              *)
(*                                                                         *)
(* Threads.  rospy runs each subscriber callback on its own thread, so the *)
(* callbacks interleave with the main loop between its statements.  The    *)
(* main loop is cut where it reads the fields the callbacks write.         *)
(*                                                                         *)
(* Randomness.  np.random is drawn only by random_walk and avoid_wall; the *)
(* draw of random_walk and the heading it sets (target_theta) are          *)
(* modelled, and a second run with its own draws (twin) is carried along   *)
(* to compare the network state of two runs fed the same inputs.           *)
(*                                                                         *)
(* Left out: the wheel commands, the turning of avoid_wall and the homing  *)
(* of lines 415-499, and the action-cell readout of lines 516-518; they    *)
(* neither read nor write the variables below, except that                 *)
(* head_to_position clears heading_home.                                   *)
(***************************************************************************)
EXTENDS Integers, Sequences, FiniteSets, TLC

\* ------------------------------------------------------------- bounds
\* Ticks of the main loop in the short, fully interleaved specification.
MaxTicks == 4
\* Pose messages delivered in the short specification.
MaxPoseMsgs == 1
\* In the episode specification the robot explores for this many ticks
\* before it finds a reward.
ForageTicks == 145
\* Ticks of the main loop after the reward is found.
EpisodeTicks == 906
\* Explore ticks left to an episode that is aborted at its first tick.
AbortTicks == 2
\* Largest whole-number current (Hz) handed to compute_rates on its own.
MaxCurrent == 305
\* Two runs side by side: WalkTicks quiet ticks, then WalkTail ticks on
\* which the reward and the sonar change.
WalkTicks == 199
WalkTail == 1
\* The replay tick of an episode after which a pose message arrives.
PoseTick == 700
\* The replay ticks of an episode during which the reward may be lost.
LostBy == 120
\* The direction slots handed to neighbour_index on its own: -1 .. MaxSlot.
MaxSlot == 9
\* The unit counts a network is constructed with: 0 .. MaxSize.
MaxSize == 122

\* ------------------------------------------------------- fixed point
\* Resolution: 1/Q.  Q is a multiple of 3, 5 and 8 (the neighbour counts
\* of corner, edge and interior units) and of 100 (delta_t = 0.01).
Q == 8 * 3 * 125

Abs(x) == IF x < 0 THEN -x ELSE x

Sgn(x) == IF x < 0 THEN -1 ELSE IF x > 0 THEN 1 ELSE 0

Min(x, y) == IF x <= y THEN x ELSE y

Max(x, y) == IF x >= y THEN x ELSE y

\* n/d for n >= 0, d > 0, to the nearest integer, never 0 for n > 0.
RoundDiv(n, d) == IF n = 0 THEN 0 ELSE Max(1, (n + d \div 2) \div d)

\* The float product x * y.
MulQ(x, y) ==
    IF x = 0 \/ y = 0 THEN 0
    ELSE LET lo == Min(Abs(x), Abs(y))
             hi == Max(Abs(x), Abs(y))
             r  == lo * (hi \div Q) + (lo * (hi % Q) + Q \div 2) \div Q
         IN  Sgn(x) * Sgn(y) * Max(1, r)

\* The float quotient x / y, y # 0.
DivQ(x, y) == Sgn(x) * Sgn(y) * RoundDiv(Abs(x) * Q, Abs(y))

\* The integer literal n as a float.
Num(n) == n * Q

\* round(Q * exp(-k)) for k = 0..8; exp never underflows to 0 here.
ExpTable == <<3000, 1104, 406, 149, 55, 20, 7, 3, 1>>

\* exp(-f) for 0 <= f < 1 (f in units of 1/Q): the Taylor polynomial of
\* degree 5 in Horner form.
ExpFrac(f) ==
    LET h5 == Q - f \div 5
        h4 == Q - MulQ(f, h5) \div 4
        h3 == Q - MulQ(f, h4) \div 3
        h2 == Q - MulQ(f, h3) \div 2
    IN  Q - MulQ(f, h2)

\* np.exp(-u) for u >= 0.
ExpNeg(u) ==
    LET k == u \div Q
    IN  IF k >= 8 THEN 1 ELSE MulQ(ExpTable[k + 1], ExpFrac(u % Q))

\* np.exp(x).
Exp(x) == IF x <= 0 THEN ExpNeg(-x) ELSE DivQ(Q, ExpNeg(x))

\* --------------------------------------------------- binary64 clock
\* A double d with 2^-7 <= d < 16 is the integer d * 2^59, held in three
\* limbs of 22 bits: <<hi, mid, lo>> = hi * 2^44 + mid * 2^22 + lo.
Limb == 2 ^ 22

\* The unit in the last place (in units of 2^-59) of a value with top
\* limb hi: 53 significant bits, so 1 while the value is below 2^53.
RECURSIVE Ulp(_)
Ulp(hi) == IF hi < 512 THEN 1 ELSE 2 * Ulp(hi \div 2)

\* Carries propagated from the low limb up.
Carry(d) ==
    LET m == d[2] + d[3] \div Limb
    IN  <<d[1] + m \div Limb, m % Limb, d[3] % Limb>>

\* Round to nearest, ties to even, at the precision of a double.
FRound(d) ==
    LET u    == Ulp(d[1])
        r    == d[3] % u
        down == d[3] - r
        up   == IF 2 * r > u THEN TRUE
                ELSE IF 2 * r < u THEN FALSE
                ELSE (down \div u) % 2 = 1
    IN  Carry(<<d[1], d[2], IF up THEN down + u ELSE down>>)

\* The double sum x + y of two doubles.
FAdd(x, y) == FRound(Carry(<<x[1] + y[1], x[2] + y[2], x[3] + y[3]>>))

\* The double difference x - y of two doubles, x >= y.
FSub(x, y) == FRound(Carry(<<x[1] - y[1], x[2] - y[2], x[3] - y[3]>>))

\* x < y on doubles.
FLess(x, y) ==
    \/ x[1] < y[1]
    \/ x[1] = y[1] /\ x[2] < y[2]
    \/ x[1] = y[1] /\ x[2] = y[2] /\ x[3] < y[3]

\* The double nearest to each decimal literal of lines 60 and 569-583.
F_zero == <<0, 0, 0>>

F_delta_t == <<327, 2852126, 3019899>>

F_1 == <<32768, 0, 0>>

F_1_1 == <<36044, 3355443, 838912>>

F_3 == <<98304, 0, 0>>

F_3_1 == <<101580, 3355443, 838912>>

F_5 == <<163840, 0, 0>>

F_5_1 == <<167116, 3355443, 838656>>

F_7 == <<229376, 0, 0>>

F_7_1 == <<232652, 3355443, 838656>>

F_9 == <<294912, 0, 0>>

\* The literal 2 of random_walk.
F_2 == <<65536, 0, 0>>

\* ------------------------------------------------- model parameters
network_size_pc == 100

a == 1

epsilon == 2

w_inh == Q \div 10

delta_t == Q \div 100

\* int(np.sqrt(self.network_size_pc))
RECURSIVE ISqrt(_, _)
ISqrt(n, r) == IF (r + 1) * (r + 1) > n THEN r ELSE ISqrt(n, r + 1)

no_cells_per_row == ISqrt(network_size_pc, 0)

Units == 0 .. network_size_pc - 1

Slots == 0 .. 7

Zeros == [i \in Units |-> 0]

\* ---------------------------------------------------------- topology
is_computableNoEastCheck(i, j) ==
    IF i % no_cells_per_row = 0 /\ j \in {0, 1, 7} THEN FALSE
    ELSE IF i \in 0 .. no_cells_per_row - 1 /\ j \in {1, 2, 3} THEN FALSE
    ELSE IF i \in network_size_pc - no_cells_per_row .. network_size_pc - 1
            /\ j \in {5, 6, 7} THEN FALSE
    ELSE TRUE

is_computable(i, j) ==
    IF i % no_cells_per_row = 0 /\ j \in {0, 1, 7} THEN FALSE
    ELSE IF i \in 0 .. no_cells_per_row - 1 /\ j \in {1, 2, 3} THEN FALSE
    ELSE IF (i + 1) % no_cells_per_row = 0 /\ j \in {3, 4, 5} THEN FALSE
    ELSE IF i \in network_size_pc - no_cells_per_row .. network_size_pc - 1
            /\ j \in {5, 6, 7} THEN FALSE
    ELSE TRUE

\* The value returned for a slot outside 0..7 is the class IndexError.
neighbour_index(i, j) ==
    CASE j = 0 -> i - 1
      [] j = 1 -> i - (no_cells_per_row + 1)
      [] j = 2 -> i - no_cells_per_row
      [] j = 3 -> i - (no_cells_per_row - 1)
      [] j = 4 -> i + 1
      [] j = 5 -> i + (no_cells_per_row + 1)
      [] j = 6 -> i + no_cells_per_row
      [] j = 7 -> i + (no_cells_per_row - 1)
      [] OTHER -> "IndexError"

\* sum(weights[i]) over the 8 slots of a row.
RECURSIVE RowSum(_, _)
RowSum(row, j) == IF j > 7 THEN 0 ELSE row[j] + RowSum(row, j + 1)

initialise_weightsUnscaled ==
    [i \in Units |-> [j \in Slots |-> IF is_computable(i, j) THEN Num(1) ELSE 0]]

initialise_weights ==
    [i \in Units |->
        LET raw == [j \in Slots |-> IF is_computable(i, j) THEN Num(1) ELSE 0]
            s   == RowSum(raw, 0)
        IN  [j \in Slots |-> MulQ(DivQ(raw[j], s), Num(8))]]

\* ----------------------------------------------------- rate transfer
compute_rateNoCeiling(current) ==
    IF current < Num(epsilon) THEN 0
    ELSE a * (current - Num(epsilon))

\* One element of compute_rates.
compute_rate(current) ==
    IF current < Num(epsilon) THEN 0
    ELSE Min(a * (current - Num(epsilon)), Num(100))

compute_rates(curr) == [i \in Units |-> compute_rate(curr[i])]

\* ------------------------------------------------- network dynamics
tau_I == Q \div 20

tau_e == 10

sigma_ss == Q \div 10

sigma_max == 4

r_sigma == 10

beta == 1

tau_inh == Q \div 20

tau_f == 1

tau_d == (3 * Q) \div 2

U == (6 * Q) \div 10

\* sum_w_r_df of update_currents for unit i: the loop over j from slot j on.
RECURSIVE sum_w_r_df(_, _, _, _, _, _)
sum_w_r_df(i, j, weights, rates_, d_, f_) ==
    IF j > 7 THEN 0
    ELSE (IF is_computable(i, j)
          THEN LET neighbour == neighbour_index(i, j)
               IN  MulQ(MulQ(MulQ(weights[i][j], rates_[neighbour]),
                             d_[neighbour]), f_[neighbour])
          ELSE 0)
         + sum_w_r_df(i, j + 1, weights, rates_, d_, f_)

recurrent_termUngated(i, e_, weights, rates_, d_, f_, replay_) ==
    MulQ(e_[i], sum_w_r_df(i, 0, weights, rates_, d_, f_))

\* g * sum_w_r_df of update_currents, the recurrent term of unit i.
recurrent_term(i, e_, weights, rates_, d_, f_, replay_) ==
    IF replay_
    THEN MulQ(e_[i], sum_w_r_df(i, 0, weights, rates_, d_, f_))
    ELSE 0

update_currents(curr, dt, e_, weights, rates_, d_, f_, inh, place, replay_) ==
    [i \in Units |->
        curr[i] + DivQ(MulQ(- curr[i]
                            + recurrent_term(i, e_, weights, rates_, d_, f_, replay_)
                            - inh + place[i], dt), tau_I)]

update_intrinsic_eNoClamp(e_, dt, rates_) ==
    [i \in Units |->
        LET sigmoid == DivQ(Num(sigma_max - 1),
                            Num(1) + Exp(- beta * (rates_[i] - Num(r_sigma))))
        IN  MulQ(DivQ(sigma_ss - e_[i], Num(tau_e)) + sigmoid, dt) + e_[i]]

update_intrinsic_e(e_, dt, rates_) ==
    [i \in Units |->
        LET sigmoid == DivQ(Num(sigma_max - 1),
                            Num(1) + Exp(- beta * (rates_[i] - Num(r_sigma))))
            upd     == MulQ(DivQ(sigma_ss - e_[i], Num(tau_e)) + sigmoid, dt) + e_[i]
        IN  IF upd > Num(sigma_max) THEN Num(sigma_max) ELSE upd]

\* sum_rates over the units lo..hi; the loop's running sum is split in
\* halves (the fixed-point sum is exact in any order).
RECURSIVE sum_rates(_, _, _)
sum_rates(rates_, lo, hi) ==
    IF lo = hi THEN rates_[lo]
    ELSE LET mid == (lo + hi) \div 2
         IN  sum_rates(rates_, lo, mid) + sum_rates(rates_, mid + 1, hi)

update_I_inh(inh, dt, w, rates_) ==
    MulQ(DivQ(- inh, tau_inh) + MulQ(w, sum_rates(rates_, 0, network_size_pc - 1)), dt)
    + inh

update_STP_DFromNewF(d_, f_, dt, rates_) ==
    [u \in Units |->
        LET f_next == MulQ(DivQ(U - f_[u], Num(tau_f))
                           + MulQ(MulQ(U, Num(1) - f_[u]), rates_[u]), dt)
                      + f_[u]
        IN  MulQ(DivQ(Num(1) - d_[u], tau_d)
                 - MulQ(MulQ(rates_[u], d_[u]), f_next), dt)
            + d_[u]]

\* update_STP returns the pair (STP_D_next, STP_F_next).
update_STP_D(d_, f_, dt, rates_) ==
    [u \in Units |->
        MulQ(DivQ(Num(1) - d_[u], tau_d) - MulQ(MulQ(rates_[u], d_[u]), f_[u]), dt)
        + d_[u]]

update_STP_F(d_, f_, dt, rates_) ==
    [u \in Units |->
        MulQ(DivQ(U - f_[u], Num(tau_f)) + MulQ(MulQ(U, Num(1) - f_[u]), rates_[u]), dt)
        + f_[u]]

\* cells_activity.flatten(): entry j * row + i is the field at column i, row j.
compute_place_cell_activities(coord_x, coord_y, reward, movement) ==
    LET d      == Q \div 10
        per_m  == Num(no_cells_per_row) \div 2
        C      == IF movement \/ reward # 0 THEN Num(50) ELSE 0
        coef   == DivQ(Num(1), MulQ(Num(2), MulQ(d, d)))
        px     == coord_x + Num(1)
        py     == coord_y + Num(1)
    IN  [u \in Units |->
            LET i   == u % no_cells_per_row
                j   == u \div no_cells_per_row
                dx  == px - (DivQ(Num(i), per_m) + Q \div 10)
                dy  == py - (DivQ(Num(j), per_m) + Q \div 10)
                dot == MulQ(dx, dx) + MulQ(dy, dy)
            IN  MulQ(C, ExpNeg(MulQ(coef, dot)))]

\* ------------------------------------------------------------- state
VARIABLES
    \* the fields written by the ROS callback threads
    reward_val, body_pose,
    \* callback_body_pose's thread: where it stands and the message it holds
    pose_thread,
    \* the main loop: its position, self.t in ticks, self.heading_home
    pc, t, heading_home,
    \* the locals of main()
    t_replay, current_theta, coords_prev, rates_prev, currents_prev,
    intrinsic_e_prev, stp_d_prev, stp_f_prev, I_place_prev, I_inh_prev,
    \* the network fields
    rates, currents, intrinsic_e, stp_d, stp_f, I_place, I_inh, replay,
    \* what the last pass through lines 548-587 did: the reward value it
    \* branched on, the replay and I_place arguments and the recurrent terms
    \* of its update_currents call, and the additions to t_replay since its
    \* reset
    reward_read, replay_arg, I_ext, rec, n_replay,
    \* the pattern the last pass through the explore branch stored
    explore_pattern,
    \* what the fields read by the tick held when the tick began
    tick_start,
    \* counters of the environment: pose messages delivered, explore ticks
    pose_msgs, explore_ticks,
    \* the last stand-alone call of a pure function and what it returned
    call,
    \* the field written by callback_sensors
    sonar_val,
    \* self.t as the double it is, and the fields of the random walk
    t_sim, target_theta, t_last_angle_change,
    \* a second run of the program fed the same position and reward on
    \* every tick: its network fields and its own target_theta
    twin

envvars == <<reward_val, body_pose, pose_thread, pose_msgs, sonar_val>>

navvars == <<t_sim, target_theta, t_last_angle_change>>

prevvars == <<coords_prev, rates_prev, currents_prev, intrinsic_e_prev,
              stp_d_prev, stp_f_prev, I_place_prev, I_inh_prev>>

netvars == <<rates, currents, intrinsic_e, stp_d, stp_f, I_place, I_inh,
             replay, t_replay>>

obsvars == <<reward_read, replay_arg, I_ext, rec, n_replay, explore_ticks,
             explore_pattern>>

vars == <<envvars, pc, t, heading_home, current_theta, tick_start,
          prevvars, netvars, obsvars, call, navvars, twin>>

\* self.network_weights: built once at line 69 and never assigned again.
network_weights == initialise_weights

intrinsic_e_resetOnes == [i \in Units |-> Num(1)]

\* np.ones(self.network_size_pc) * 0.1
intrinsic_e_reset == [i \in Units |-> Q \div 10]

home_pose == [k \in 0 .. 2 |-> IF k = 0 THEN - (7 * Q) \div 10 ELSE 0]

\* 2 * np.pi
two_pi == (62832 * Q) \div 10000

\* The reward values and the Pose2D message the topics deliver: a pose
\* away from home, with a negative heading.
RewardVals == {0, 1}

PoseMsgs ==
    { [x |-> - Q \div 2, y |-> (2 * Q) \div 10, theta |-> - Q] }

NoCall == [fn |-> "none"]

\* No second run has been started.
NoRun == [run |-> "none"]

\* np.random.rand() draws from [0, 1).
Rand == {0, Q \div 2}

\* The sonar ranges the sensors topic delivers: 1 m and 1 cm.
SonarVals == {Q, Q \div 100}

InitRun ==
    /\ reward_val = 0
    /\ body_pose = home_pose
    /\ pose_thread = [at |-> "idle"]
    /\ pose_msgs = 0
    /\ pc = "top"
    /\ t = 0
    /\ heading_home = TRUE
    /\ t_replay = F_zero
    /\ current_theta = 0
    /\ coords_prev = [k \in 0 .. 1 |-> home_pose[k]]
    /\ rates_prev = Zeros
    /\ currents_prev = Zeros
    /\ intrinsic_e_prev = intrinsic_e_reset
    /\ stp_d_prev = [i \in Units |-> Num(1)]
    /\ stp_f_prev = [i \in Units |-> (6 * Q) \div 10]
    /\ I_place_prev = Zeros
    /\ I_inh_prev = 0
    /\ rates = Zeros
    /\ currents = Zeros
    /\ intrinsic_e = intrinsic_e_reset
    /\ stp_d = [i \in Units |-> Num(1)]
    /\ stp_f = [i \in Units |-> (6 * Q) \div 10]
    /\ I_place = Zeros
    /\ I_inh = 0
    /\ replay = FALSE
    /\ reward_read = 0
    /\ replay_arg = FALSE
    /\ I_ext = Zeros
    /\ rec = Zeros
    /\ n_replay = 0
    /\ explore_pattern = Zeros
    /\ tick_start = [reward |-> 0, pose |-> home_pose]
    /\ explore_ticks = 0
    /\ call = NoCall
    /\ sonar_val = Q
    /\ t_sim = F_zero
    /\ target_theta = 0
    /\ t_last_angle_change = F_zero

\* One run of the program.
Init == InitRun /\ twin = NoRun

\* Two runs constructed alike.
InitTwoRuns ==
    /\ InitRun
    /\ twin = [rates |-> rates, currents |-> currents, intrinsic_e |-> intrinsic_e,
               stp_d |-> stp_d, stp_f |-> stp_f, I_place |-> I_place,
               I_inh |-> I_inh, replay |-> replay, t_replay |-> t_replay,
               target_theta |-> target_theta]

\* ---------------------------------------------------- ROS callbacks
update_reward(data) ==
    /\ reward_val' = data
    /\ UNCHANGED <<body_pose, pose_thread, pose_msgs, sonar_val, pc, t,
                   heading_home, current_theta, tick_start, prevvars, netvars,
                   obsvars, call, navvars, twin>>

\* callback_body_pose, line 121: self.body_pose[0] = msg.x
callback_body_pose_x(msg) ==
    /\ pose_thread.at = "idle"
    /\ pose_msgs < MaxPoseMsgs
    /\ pose_msgs' = pose_msgs + 1
    /\ body_pose' = [body_pose EXCEPT ![0] = msg.x]
    /\ pose_thread' = [at |-> "y", msg |-> msg]
    /\ UNCHANGED <<reward_val, sonar_val, pc, t, heading_home, current_theta,
                   tick_start, prevvars, netvars, obsvars, call, navvars, twin>>

\* line 122: self.body_pose[1] = msg.y
callback_body_pose_y ==
    /\ pose_thread.at = "y"
    /\ body_pose' = [body_pose EXCEPT ![1] = pose_thread.msg.y]
    /\ pose_thread' = [pose_thread EXCEPT !.at = "theta"]
    /\ UNCHANGED <<reward_val, pose_msgs, sonar_val, pc, t, heading_home,
                   current_theta, tick_start, prevvars, netvars, obsvars, call,
                   navvars, twin>>

\* lines 125-128: theta moved from [-pi, pi] to [0, 2 pi]
normalise_theta(theta) == IF theta < 0 THEN theta + two_pi ELSE theta

callback_body_pose_theta ==
    /\ pose_thread.at = "theta"
    /\ body_pose' = [body_pose EXCEPT ![2] = normalise_theta(pose_thread.msg.theta)]
    /\ pose_thread' = [at |-> "idle"]
    /\ UNCHANGED <<reward_val, pose_msgs, sonar_val, pc, t, heading_home,
                   current_theta, tick_start, prevvars, netvars, obsvars, call,
                   navvars, twin>>

\* callback_sensors, line 131.
callback_sensors(range) ==
    /\ sonar_val' = range
    /\ UNCHANGED <<reward_val, body_pose, pose_thread, pose_msgs, pc, t,
                   heading_home, current_theta, tick_start, prevvars, netvars,
                   obsvars, call, navvars, twin>>

\* -------------------------------------------------------- main loop
\* random_walk, lines 400-410, with the value np.random.rand() returned.
random_walk(due, current_theta_, current_target_theta, rand) ==
    IF due THEN (current_theta_ + 2 * rand - Num(1)) % two_pi
    ELSE current_target_theta

\* Lines 518-521: the target heading after random_walk and miro_controller,
\* which turns away from a wall nearer than 3 cm (avoid_wall, whose own
\* draw is compared with p_anti_clock = 1 and so always turns one way) and
\* then keeps the heading held.
walk_target(due, current_target_theta, rand) ==
    IF sonar_val < (3 * Q) \div 100
    THEN body_pose[2]
    ELSE random_walk(due, body_pose[2], current_target_theta, rand)

\* Lines 507-525: the tick begins; the heading is read for the controller.
MainTop(max_t) ==
    /\ pc = "top"
    /\ t < max_t
    /\ t' = t + 1
    /\ heading_home' = FALSE
    /\ current_theta' = body_pose[2]
    /\ tick_start' = [reward |-> reward_val, pose |-> body_pose]
    /\ pc' = "copy"
    /\ t_sim' = FAdd(t_sim, F_delta_t)
    /\ LET due == /\ ~ replay
                  /\ FLess(F_2, FSub(t_sim', t_last_angle_change))
       IN  /\ t_last_angle_change' = IF due THEN t_sim' ELSE t_last_angle_change
           /\ \E rand \in (IF due THEN Rand ELSE {0}) :
                  target_theta' = IF replay THEN target_theta
                                  ELSE walk_target(due, target_theta, rand)
           /\ \E rand \in (IF due /\ twin # NoRun THEN Rand ELSE {0}) :
                  twin' = IF twin = NoRun \/ replay THEN twin
                          ELSE [twin EXCEPT !.target_theta =
                                   walk_target(due, twin.target_theta, rand)]
    /\ UNCHANGED <<envvars, prevvars, netvars, obsvars, call>>

\* Lines 529-546: coords is a view of body_pose, coords_prev its copy.
MainCopy ==
    /\ pc = "copy"
    /\ coords_prev' = [k \in 0 .. 1 |-> body_pose[k]]
    /\ rates_prev' = rates
    /\ currents_prev' = currents
    /\ intrinsic_e_prev' = intrinsic_e
    /\ stp_d_prev' = stp_d
    /\ stp_f_prev' = stp_f
    /\ I_place_prev' = I_place
    /\ I_inh_prev' = I_inh
    /\ pc' = "update"
    /\ UNCHANGED <<envvars, t, heading_home, current_theta, tick_start,
                   netvars, obsvars, call, navvars, twin>>

in_pulse_windowFirstOnly(tr) == FLess(F_1, tr) /\ FLess(tr, F_1_1)

\* Line 569.
in_pulse_window(tr) ==
    \/ FLess(F_1, tr) /\ FLess(tr, F_1_1)
    \/ FLess(F_3, tr) /\ FLess(tr, F_3_1)
    \/ FLess(F_5, tr) /\ FLess(tr, F_5_1)
    \/ FLess(F_7, tr) /\ FLess(tr, F_7_1)

\* Line 583.
episode_over(tr) == FLess(F_9, tr)

ExploreWithNoise ==
    /\ replay' = FALSE
    /\ t_replay' = F_zero
    /\ n_replay' = 0
    /\ replay_arg' = FALSE
    /\ I_ext' = I_place_prev
    /\ rec' = [i \in Units |->
                 recurrent_term(i, intrinsic_e_prev, network_weights, rates_prev,
                                stp_d_prev, stp_f_prev, replay_arg')]
    /\ \E rand \in Rand :
           currents' = update_currents(currents_prev, delta_t, intrinsic_e_prev,
                                       network_weights, rates_prev, stp_d_prev,
                                       stp_f_prev, I_inh_prev,
                                       [i \in Units |-> I_place_prev[i] + rand],
                                       replay_arg')
    /\ rates' = compute_rates(currents')
    /\ intrinsic_e' = update_intrinsic_e(intrinsic_e_prev, delta_t, rates_prev)
    /\ stp_d' = update_STP_D(stp_d_prev, stp_f_prev, delta_t, rates_prev)
    /\ stp_f' = update_STP_F(stp_d_prev, stp_f_prev, delta_t, rates_prev)
    /\ I_place' = compute_place_cell_activities(coords_prev[0], coords_prev[1], 0, TRUE)
    /\ I_inh' = update_I_inh(I_inh_prev, delta_t, w_inh, rates_prev)
    /\ explore_ticks' = explore_ticks + 1
    /\ explore_pattern' = I_place'

\* Lines 548-560.
Explore ==
    /\ replay' = FALSE
    /\ t_replay' = F_zero
    /\ n_replay' = 0
    /\ replay_arg' = FALSE
    /\ I_ext' = I_place_prev
    /\ rec' = [i \in Units |->
                 recurrent_term(i, intrinsic_e_prev, network_weights, rates_prev,
                                stp_d_prev, stp_f_prev, replay_arg')]
    /\ currents' = update_currents(currents_prev, delta_t, intrinsic_e_prev,
                                   network_weights, rates_prev, stp_d_prev,
                                   stp_f_prev, I_inh_prev, I_place_prev, replay_arg')
    /\ rates' = compute_rates(currents')
    /\ intrinsic_e' = update_intrinsic_e(intrinsic_e_prev, delta_t, rates_prev)
    /\ stp_d' = update_STP_D(stp_d_prev, stp_f_prev, delta_t, rates_prev)
    /\ stp_f' = update_STP_F(stp_d_prev, stp_f_prev, delta_t, rates_prev)
    /\ I_place' = compute_place_cell_activities(coords_prev[0], coords_prev[1], 0, TRUE)
    /\ I_inh' = update_I_inh(I_inh_prev, delta_t, w_inh, rates_prev)
    /\ explore_ticks' = explore_ticks + 1
    /\ explore_pattern' = I_place'

ReplayRefreshingPattern ==
    /\ t_replay' = FAdd(t_replay, F_delta_t)
    /\ n_replay' = n_replay + 1
    /\ replay_arg' = TRUE
    /\ I_ext' = IF in_pulse_window(t_replay') THEN I_place ELSE Zeros
    /\ rec' = [i \in Units |->
                 recurrent_term(i, intrinsic_e_prev, network_weights, rates_prev,
                                stp_d_prev, stp_f_prev, replay_arg')]
    /\ currents' = update_currents(currents_prev, delta_t, intrinsic_e_prev,
                                   network_weights, rates_prev, stp_d_prev,
                                   stp_f_prev, I_inh_prev, I_ext', replay_arg')
    /\ rates' = compute_rates(currents')
    /\ stp_d' = update_STP_D(stp_d_prev, stp_f_prev, delta_t, rates_prev)
    /\ stp_f' = update_STP_F(stp_d_prev, stp_f_prev, delta_t, rates_prev)
    /\ I_inh' = update_I_inh(I_inh_prev, delta_t, w_inh, rates_prev)
    /\ IF episode_over(t_replay')
       THEN /\ replay' = FALSE
            /\ intrinsic_e' = intrinsic_e_reset
       ELSE /\ replay' = TRUE
            /\ intrinsic_e' = update_intrinsic_e(intrinsic_e_prev, delta_t, rates_prev)
    /\ I_place' = compute_place_cell_activities(coords_prev[0], coords_prev[1],
                                                reward_val, TRUE)
    /\ UNCHANGED <<explore_ticks, explore_pattern>>

\* Lines 562-587.
Replay ==
    /\ t_replay' = FAdd(t_replay, F_delta_t)
    /\ n_replay' = n_replay + 1
    /\ replay_arg' = TRUE
    /\ I_ext' = IF in_pulse_window(t_replay') THEN I_place ELSE Zeros
    /\ rec' = [i \in Units |->
                 recurrent_term(i, intrinsic_e_prev, network_weights, rates_prev,
                                stp_d_prev, stp_f_prev, replay_arg')]
    /\ currents' = update_currents(currents_prev, delta_t, intrinsic_e_prev,
                                   network_weights, rates_prev, stp_d_prev,
                                   stp_f_prev, I_inh_prev, I_ext', replay_arg')
    /\ rates' = compute_rates(currents')
    /\ stp_d' = update_STP_D(stp_d_prev, stp_f_prev, delta_t, rates_prev)
    /\ stp_f' = update_STP_F(stp_d_prev, stp_f_prev, delta_t, rates_prev)
    /\ I_inh' = update_I_inh(I_inh_prev, delta_t, w_inh, rates_prev)
    /\ IF episode_over(t_replay')
       THEN /\ replay' = FALSE
            /\ intrinsic_e' = intrinsic_e_reset
       ELSE /\ replay' = TRUE
            /\ intrinsic_e' = update_intrinsic_e(intrinsic_e_prev, delta_t, rates_prev)
    /\ UNCHANGED <<I_place, explore_ticks, explore_pattern>>

\* Lines 548-560 in the second run: n holds its fields.
run_explore(n, coords) ==
    LET c == update_currents(n.currents, delta_t, n.intrinsic_e, network_weights,
                             n.rates, n.stp_d, n.stp_f, n.I_inh, n.I_place, FALSE)
    IN  [n EXCEPT !.replay = FALSE,
                  !.t_replay = F_zero,
                  !.currents = c,
                  !.rates = compute_rates(c),
                  !.intrinsic_e = update_intrinsic_e(n.intrinsic_e, delta_t, n.rates),
                  !.stp_d = update_STP_D(n.stp_d, n.stp_f, delta_t, n.rates),
                  !.stp_f = update_STP_F(n.stp_d, n.stp_f, delta_t, n.rates),
                  !.I_place = compute_place_cell_activities(coords[0], coords[1],
                                                            0, TRUE),
                  !.I_inh = update_I_inh(n.I_inh, delta_t, w_inh, n.rates)]

\* Lines 562-587 in the second run.
run_replay(n) ==
    LET tr  == FAdd(n.t_replay, F_delta_t)
        ext == IF in_pulse_window(tr) THEN n.I_place ELSE Zeros
        c   == update_currents(n.currents, delta_t, n.intrinsic_e, network_weights,
                               n.rates, n.stp_d, n.stp_f, n.I_inh, ext, TRUE)
    IN  [n EXCEPT !.replay = ~ episode_over(tr),
                  !.t_replay = tr,
                  !.currents = c,
                  !.rates = compute_rates(c),
                  !.intrinsic_e = IF episode_over(tr) THEN intrinsic_e_reset
                                  ELSE update_intrinsic_e(n.intrinsic_e, delta_t,
                                                          n.rates),
                  !.stp_d = update_STP_D(n.stp_d, n.stp_f, delta_t, n.rates),
                  !.stp_f = update_STP_F(n.stp_d, n.stp_f, delta_t, n.rates),
                  !.I_inh = update_I_inh(n.I_inh, delta_t, w_inh, n.rates)]

\* One pass of the second run through lines 548-587, on the same position
\* and reward.
run_tick(n, coords, reward) ==
    IF n = NoRun THEN n
    ELSE IF reward = 0 THEN run_explore(n, coords)
    ELSE run_replay(n)

MainUpdate(max_explore) ==
    /\ pc = "update"
    /\ reward_val = 0 => explore_ticks < max_explore
    /\ reward_read' = reward_val
    /\ IF reward_val = 0 THEN Explore ELSE Replay
    /\ twin' = run_tick(twin, coords_prev, reward_val)
    /\ pc' = "top"
    /\ UNCHANGED <<envvars, t, heading_home, current_theta, tick_start,
                   prevvars, call, navvars>>

\* ------------------------------------------------- specifications
\* A few ticks under every interleaving of the callbacks.
Next ==
    \/ \E data \in RewardVals : update_reward(data)
    \/ \E msg \in PoseMsgs : callback_body_pose_x(msg)
    \/ callback_body_pose_y
    \/ callback_body_pose_theta
    \/ MainTop(MaxTicks)
    \/ MainCopy
    \/ MainUpdate(MaxTicks)

Spec == Init /\ [][Next]_vars

\* Whole replay episodes: the robot explores on the spot, so the pose
\* messages repeat the pose already held, until one message with another
\* pose arrives late in the episode; the reward is found during tick
\* ForageTicks and may be lost during the first LostBy replay ticks.
MaxEpisodeTicks == ForageTicks + EpisodeTicks

MaxExploreTicks == ForageTicks + AbortTicks - 1

reward_found(data) ==
    /\ data # 0
    /\ t = ForageTicks
    /\ update_reward(data)

reward_lost ==
    /\ n_replay <= LostBy
    /\ update_reward(0)

\* A pose message arrives after replay tick PoseTick of an episode.
pose_update(msg) ==
    /\ n_replay = PoseTick
    /\ callback_body_pose_x(msg)

NextEpisode ==
    \/ \E data \in RewardVals : reward_found(data)
    \/ reward_lost
    \/ \E msg \in PoseMsgs : pose_update(msg)
    \/ callback_body_pose_y
    \/ callback_body_pose_theta
    \/ MainTop(MaxEpisodeTicks)
    \/ MainCopy
    \/ MainUpdate(MaxExploreTicks)

SpecEpisode == Init /\ [][NextEpisode]_vars

\* Two runs on the same inputs: after WalkTicks quiet ticks the reward and
\* the sonar range change at any time and a pose message arrives;
\* random_walk draws a new heading once self.t exceeds 2 s.
MaxWalkTicks == WalkTicks + WalkTail

reward_late(data) ==
    /\ t >= WalkTicks
    /\ update_reward(data)

sonar_late(range) ==
    /\ t >= WalkTicks
    /\ callback_sensors(range)

pose_late(msg) ==
    /\ t = WalkTicks
    /\ callback_body_pose_x(msg)

NextWalk ==
    \/ \E data \in RewardVals : reward_late(data)
    \/ \E range \in SonarVals : sonar_late(range)
    \/ \E msg \in PoseMsgs : pose_late(msg)
    \/ callback_body_pose_y
    \/ callback_body_pose_theta
    \/ MainTop(MaxWalkTicks)
    \/ MainCopy
    \/ MainUpdate(MaxWalkTicks)

SpecWalk == InitTwoRuns /\ [][NextWalk]_vars

\* The pure functions called on their own, over all their arguments.
CallTopology(i, j) ==
    /\ call = NoCall
    /\ call' = [fn |-> "neighbour_index", i |-> i, j |-> j,
                valid |-> is_computable(i, j), ret |-> neighbour_index(i, j)]
    /\ UNCHANGED <<envvars, pc, t, heading_home, current_theta, tick_start,
                   prevvars, netvars, obsvars, navvars, twin>>

CallInitialiseWeights ==
    /\ call = NoCall
    /\ call' = [fn |-> "initialise_weights", ret |-> initialise_weights]
    /\ UNCHANGED <<envvars, pc, t, heading_home, current_theta, tick_start,
                   prevvars, netvars, obsvars, navvars, twin>>

CallComputeRate(c) ==
    /\ call = NoCall
    /\ call' = [fn |-> "compute_rates", current |-> c, ret |-> compute_rate(Num(c))]
    /\ UNCHANGED <<envvars, pc, t, heading_home, current_theta, tick_start,
                   prevvars, netvars, obsvars, navvars, twin>>

\* Lines 204-220: every branch of neighbour_index, the last else included,
\* is a return statement; none raises.
neighbour_index_outcome(i, j) == "returned"

\* neighbour_index called with any slot, also one outside 0..7.
CallNeighbourIndex(i, j) ==
    /\ call = NoCall
    /\ call' = [fn |-> "neighbour_index_any_slot", i |-> i, j |-> j,
                outcome |-> neighbour_index_outcome(i, j),
                ret |-> neighbour_index(i, j)]
    /\ UNCHANGED <<envvars, pc, t, heading_home, current_theta, tick_start,
                   prevvars, netvars, obsvars, navvars, twin>>

\* Lines 54 and 60 with other values: the unit counts and time steps a
\* network is constructed with.
ConfigSizes == 0 .. MaxSize

ConfigSteps == {- (Q \div 100), 0, Q \div 100}

\* Line 145: the rows initialise_weights writes, whatever the unit count.
rows_written == 0 .. 99

\* initialise_weights on a table of size rows: is_computable divides by
\* int(sqrt(size)), and a row at or beyond size is outside the table.
initialise_weights_raises(size) ==
    IF ISqrt(size, 0) = 0 THEN "ZeroDivisionError"
    ELSE IF \E i \in rows_written : i >= size THEN "IndexError"
    ELSE "none"

\* Lines 53-72: __init__ stores the unit count and the time step without
\* looking at them and builds the arrays and the weight table.
RoboReplay_init(size, dt) ==
    IF initialise_weights_raises(size) = "none"
    THEN [outcome |-> "constructed", network_size_pc |-> size, delta_t |-> dt]
    ELSE [outcome |-> initialise_weights_raises(size)]

CallInit(size, dt) ==
    /\ call = NoCall
    /\ call' = [fn |-> "__init__", size |-> size, dt |-> dt,
                ret |-> RoboReplay_init(size, dt)]
    /\ UNCHANGED <<envvars, pc, t, heading_home, current_theta, tick_start,
                   prevvars, netvars, obsvars, navvars, twin>>

NextFn ==
    \/ \E i \in Units, j \in Slots : CallTopology(i, j)
    \/ CallInitialiseWeights
    \/ \E c \in -5 .. MaxCurrent : CallComputeRate(c)
    \/ \E i \in Units, j \in -1 .. MaxSlot : CallNeighbourIndex(i, j)
    \/ \E size \in ConfigSizes, dt \in ConfigSteps : CallInit(size, dt)

SpecFn == Init /\ [][NextFn]_vars

\* ------------------------------------------------------------ claims
\* A pass through lines 548-587 has completed and the next has not begun.
AfterUpdate == pc = "top" /\ t > 0

\* A step of the main loop through lines 548-587.
UpdateStep == pc = "update" /\ pc' = "top"

\* The baseline gain sigma_ss = 0.1 in every unit.
Baseline == [i \in Units |-> Q \div 10]

\* Episode-elapsed time n * delta_t lies in (1,1.1], (3,3.1], (5,5.1] or
\* (7,7.1]; n counts the replay ticks of the episode.
InClaimedWindow(n) ==
    \/ 100 < n /\ n <= 110
    \/ 300 < n /\ n <= 310
    \/ 500 < n /\ n <= 510
    \/ 700 < n /\ n <= 710

\* The replay ticks on which the sum of n doubles 0.01 lies strictly
\* between 1 and 1.1, 3 and 3.1, 5 and 5.1 or 7 and 7.1.
PulseTicks == (100 .. 109) \cup (301 .. 310) \cup (501 .. 510) \cup (701 .. 710)

\* C1 as claimed: on a replay tick the external input handed to
\* update_currents is the stored place-field pattern exactly when the
\* elapsed time lies in (1,1.1], (3,3.1], (5,5.1] or (7,7.1], and the zero
\* vector on every other replay tick.
C1_ClaimedWindows ==
    (AfterUpdate /\ reward_read # 0) =>
        I_ext = IF InClaimedWindow(n_replay) THEN I_place ELSE Zeros

\* C1 amended: on a replay tick the external input is the stored pattern
\* exactly on the replay ticks 100-109, 301-310, 501-510 and 701-710 of the
\* episode (the ticks whose accumulated t_replay lies strictly inside
\* (1,1.1), (3,3.1), (5,5.1) or (7,7.1)), and the zero vector on every
\* other replay tick.
C1_PulseSchedule ==
    (AfterUpdate /\ reward_read # 0) =>
        I_ext = IF n_replay \in PulseTicks THEN I_place ELSE Zeros

C1_Witness ==
    /\ AfterUpdate
    /\ reward_read # 0
    /\ n_replay = 710
    /\ I_ext = I_place
    /\ I_ext # Zeros

\* C2 as claimed: the tick on which elapsed first exceeds 9 s ends with
\* every gain at 0.1, and the tick after a tick that ended with elapsed
\* above 9 s calls update_currents without the recurrent term (replay
\* false), whatever reward_val holds.
C2_ExitThenExplore ==
    [][UpdateStep =>
        /\ (~ episode_over(t_replay) /\ episode_over(t_replay'))
               => intrinsic_e' = Baseline
        /\ episode_over(t_replay) => ~ replay_arg']_vars

\* C3 as claimed: the tick that takes the controller from REPLAY_ACTIVE
\* back to EXPLORE leaves every gain at the baseline; on the abort path,
\* where that tick is an explore tick, the baseline is what its homeostatic
\* update is applied to.
C3_ResetOnEveryExit ==
    [][(UpdateStep /\ replay /\ ~ replay') =>
        intrinsic_e' = IF reward_val = 0
                       THEN update_intrinsic_e(Baseline, delta_t, rates)
                       ELSE Baseline]_vars

\* C3 amended: the tick that ends an episode because elapsed exceeds 9 s
\* leaves every gain at the baseline 0.1; the tick that ends it because
\* reward_val is back at 0 does not reset the gain, it applies the
\* homeostatic update to the gain the last replay tick left.
C3_ResetOnTimeoutOnly ==
    [][(UpdateStep /\ replay /\ ~ replay') =>
        intrinsic_e' = IF reward_val = 0
                       THEN update_intrinsic_e(intrinsic_e, delta_t, rates)
                       ELSE Baseline]_vars

C3_Witness ==
    /\ AfterUpdate
    /\ reward_read # 0
    /\ episode_over(t_replay)
    /\ ~ replay
    /\ intrinsic_e = Baseline
    /\ \E i \in Units : intrinsic_e_prev[i] > Q \div 10

\* C4 as claimed: a tick in EXPLORE ends in REPLAY_ACTIVE exactly when
\* reward_val is nonzero; a tick in REPLAY_ACTIVE ends in EXPLORE exactly
\* when elapsed exceeds 9 s or reward_val is 0.
C4_TwoStateMachine ==
    [][UpdateStep =>
        IF ~ replay
        THEN replay' <=> reward_val # 0
        ELSE ~ replay' <=> (episode_over(t_replay') \/ reward_val = 0)]_vars

\* Unit i has a valid neighbour with nonzero rate and nonzero product
\* stpDepression * stpFacilitation among the values the tick read.
DrivenNeighbour(i) ==
    \E j \in Slots :
        /\ is_computable(i, j)
        /\ rates_prev[neighbour_index(i, j)] # 0
        /\ MulQ(stp_d_prev[neighbour_index(i, j)],
                stp_f_prev[neighbour_index(i, j)]) # 0

\* C5: on a tick taken with reward_val = 0 the recurrent term of every unit
\* is exactly 0; on a tick taken with reward_val nonzero it is nonzero for
\* every unit that has a valid neighbour with nonzero rate and nonzero STP
\* product.
C5_ModeGating ==
    AfterUpdate =>
        /\ reward_read = 0 => rec = Zeros
        /\ reward_read # 0 => \A i \in Units : DrivenNeighbour(i) => rec[i] # 0

C5_Witness ==
    /\ AfterUpdate
    /\ reward_read # 0
    /\ \E i \in Units : DrivenNeighbour(i) /\ rec[i] # 0
    /\ \E i \in Units : ~ DrivenNeighbour(i) /\ rec[i] = 0

\* C6: for every unit i and slot j that is_computable accepts, the
\* neighbour k is a unit, the opposite slot is accepted for k and leads
\* back to i.
C6_TopologySymmetry ==
    (call.fn = "neighbour_index" /\ call.valid) =>
        LET k   == call.ret
            opp == (call.j + 4) % 8
        IN  /\ k \in Units
            /\ is_computable(k, opp)
            /\ neighbour_index(k, opp) = call.i

C6_Witness ==
    /\ call.fn = "neighbour_index"
    /\ call.i = 9
    /\ call.j = 6
    /\ call.valid
    /\ call.ret = 19

\* The number of neighbours of unit i on the 10 x 10 lattice: 3 at a
\* corner, 5 on an edge, 8 inside.
OnBorder(k) == k = 0 \/ k = 9

LatticeNeighbours(i) ==
    IF OnBorder(i % 10) /\ OnBorder(i \div 10) THEN 3
    ELSE IF OnBorder(i % 10) \/ OnBorder(i \div 10) THEN 5
    ELSE 8

Clamp(v, lo, hi) == IF v < lo THEN lo ELSE IF v > hi THEN hi ELSE v

PoseHeld ==
    {home_pose} \cup
    { [k \in 0 .. 2 |-> IF k = 0 THEN m.x
                        ELSE IF k = 1 THEN m.y
                        ELSE normalise_theta(m.theta)] : m \in PoseMsgs }

\* C10 as claimed: the x, y and heading a tick uses come from one and the
\* same pose message, and the position and reward it uses are the ones
\* held when the tick began.
C10_OneSnapshot ==
    AfterUpdate =>
        /\ \E p \in PoseHeld :
               /\ coords_prev[0] = p[0]
               /\ coords_prev[1] = p[1]
               /\ current_theta = p[2]
        /\ coords_prev[0] = tick_start.pose[0]
        /\ coords_prev[1] = tick_start.pose[1]
        /\ reward_read = tick_start.reward

\* C11 as claimed: neighbour_index with a slot outside 0..7 ends in an
\* error and hands no value back to its caller.
C11_BadSlotFailsFast ==
    (call.fn = "neighbour_index_any_slot" /\ call.j \notin Slots) =>
        call.outcome = "raised"

\* size is a perfect square.
IsSquare(size) == ISqrt(size, 0) * ISqrt(size, 0) = size

C14_EpisodeRecord ==
    [][UpdateStep =>
        IF reward_val = 0
        THEN ~ replay' /\ t_replay' = F_zero
        ELSE LET elapsed == FAdd(t_replay, F_delta_t)
             IN  IF episode_over(elapsed)
                 THEN ~ replay' /\ t_replay' = F_zero
                 ELSE replay' /\ t_replay' = elapsed]_vars

\* The external input of the tick being taken: the stored pattern on an
\* explore tick, the scheduled pulse or zero on a replay tick.
TickInput == IF reward_val = 0 THEN I_place ELSE I_ext'

\* C16: every tick's new currents, STP variables, gains and inhibition are
\* the update equations applied to the values the network held when the
\* tick began (the gain being the baseline on the tick that ends an episode
\* after 9 s), and the new rates are the transfer function of the new
\* currents.
C16_FrozenPreviousState ==
    [][UpdateStep =>
        /\ currents' = update_currents(currents, delta_t, intrinsic_e,
                                       network_weights, rates, stp_d, stp_f,
                                       I_inh, TickInput, reward_val # 0)
        /\ rates' = compute_rates(currents')
        /\ stp_d' = [u \in Units |->
                        MulQ(DivQ(Num(1) - stp_d[u], (3 * Q) \div 2)
                             - MulQ(MulQ(rates[u], stp_d[u]), stp_f[u]),
                             Q \div 100)
                        + stp_d[u]]
        /\ stp_f' = update_STP_F(stp_d, stp_f, delta_t, rates)
        /\ intrinsic_e' = IF reward_val # 0 /\ episode_over(t_replay')
                          THEN Baseline
                          ELSE update_intrinsic_e(intrinsic_e, delta_t, rates)
        /\ I_inh' = update_I_inh(I_inh, delta_t, w_inh, rates)]_vars

C16_Witness ==
    /\ AfterUpdate
    /\ reward_read # 0
    /\ I_inh # I_inh_prev
    /\ \E u \in Units :
           /\ rates_prev[u] > 0
           /\ rates[u] # rates_prev[u]
           /\ currents[u] # currents_prev[u]
           /\ stp_d[u] # stp_d_prev[u]
           /\ stp_f[u] # stp_f_prev[u]
           /\ intrinsic_e[u] # intrinsic_e_prev[u]

\* C15: a tick taken with reward_val nonzero leaves the stored pattern
\* I_place as it was, equal to the pattern the last explore tick computed,
\* and the input of every pulse tick of the episode is that pattern,
\* whatever pose messages arrived during the episode.
C15_PatternFrozen ==
    [][(UpdateStep /\ reward_val # 0) =>
        /\ I_place' = I_place
        /\ I_place' = explore_pattern
        /\ in_pulse_window(t_replay') => I_ext' = explore_pattern]_vars

C15_Witness ==
    /\ AfterUpdate
    /\ reward_read # 0
    /\ n_replay = 710
    /\ coords_prev[0] # home_pose[0]
    /\ coords_prev[1] # home_pose[1]
    /\ I_ext = explore_pattern
    /\ I_ext # Zeros
    /\ I_ext # compute_place_cell_activities(coords_prev[0], coords_prev[1], 0, TRUE)

\* C13: two runs constructed alike and fed the same position and reward on
\* every tick hold the same network state (currents, rates, gains, STP
\* variables, inhibition, stored pattern, replay flag, elapsed time) at
\* every moment, whatever headings their random walks drew.
C13_Determinism ==
    twin # NoRun =>
        /\ twin.currents = currents
        /\ twin.rates = rates
        /\ twin.intrinsic_e = intrinsic_e
        /\ twin.stp_d = stp_d
        /\ twin.stp_f = stp_f
        /\ twin.I_inh = I_inh
        /\ twin.I_place = I_place
        /\ twin.replay = replay
        /\ twin.t_replay = t_replay

C13_Witness ==
    /\ twin # NoRun
    /\ AfterUpdate
    /\ twin.target_theta # target_theta
    /\ reward_read # 0
    /\ \E u \in Units : rates[u] > 0 /\ rates[u] # rates_prev[u]

====
